---- MODULE Spec2Model ----
(***************************************************************************)
(* A model of app.py: the two-stage DCF engine (calculate_dcf_ev), the     *)
(* implied-growth solver (bisection_solver, reverse_dcf_solver), the       *)
(* sensitivity grid (sensitivity_analysis) and the Streamlit handlers      *)
(* that call them on the session's stock_data.                             *)
(*                                                                         *)
(* Numbers.  The program computes in double precision.  The model computes *)
(* in fixed point, rounding every operation downwards as a double rounds   *)
(* to its nearest value:                                                   *)
(*   - a rate (growth, WACC, terminal growth) r is the integer r * One,    *)
(*     so one unit is a twentieth of a percentage point;                   *)
(*   - a power (1 + wacc) ** year p is the integer p * PowScale;           *)
(*   - money is an integer number of currency units.                       *)
(***************************************************************************)
EXTENDS Integers, Sequences, FiniteSets, TLC

One == 2000
PowScale == 10000

Abs(x) == IF x < 0 THEN -x ELSE x

\* the rates n%, n/1000 and the widget number n/10 (a percent, times One)
Pct(n) == (n * One) \div 100
Permille(n) == (n * One) \div 1000
Tenths(n) == (n * One) \div 10

Sign(x) == IF x > 0 THEN 1 ELSE IF x < 0 THEN -1 ELSE 0

\* floor(x * a / b) for a >= 0 and b > 0, without forming the product x * a
MulDivPos(x, a, b) == (x \div b) * a + ((x % b) * a) \div b

\* floor(x * a / b) for any a and any b # 0
MulDiv(x, a, b) ==
    LET sx == IF (a < 0) # (b < 0) THEN -x ELSE x
    IN  MulDivPos(sx, Abs(a), Abs(b))

\* F of the value of v: an assignment x = v followed by the statements F(x),
\* the right-hand side being evaluated once
Let(v, F(_)) == CHOOSE r \in { F(x) : x \in {v} } : TRUE

(***************************************************************************)
(* Python values: None, and a raised exception                             *)
(***************************************************************************)
\* a float that is not a number (a gap in a yfinance table) and Python's None
\* (a field yfinance does not have), as two integers no amount of the model takes
NaN == -2000000000
PyNone == -2000000001

\* the result of a function that returns None or a value
NoneVal == [isNone |-> TRUE, val |-> 0]
Some(v) == [isNone |-> FALSE, val |-> v]

(***************************************************************************)
(* calculate_dcf_ev                                                        *)
(***************************************************************************)
\* (1 + wacc) ** year, with base = One + wacc
RECURSIVE Pow(_, _)
Pow(base, year) ==
    IF year = 0 THEN PowScale ELSE MulDiv(Pow(base, year - 1), base, One)

\* the mutant of ProjectLoop: the cash flow is not grown
RECURSIVE ProjectLoop_nogrowth(_, _, _, _)
ProjectLoop_nogrowth(growth_rate, fcf, wacc, year) ==
    IF year = 0 THEN [curr_fcf |-> fcf, pv_sum |-> 0]
    ELSE LET prev == ProjectLoop_nogrowth(growth_rate, fcf, wacc, year - 1)
         IN  [curr_fcf |-> fcf,
              pv_sum   |-> prev.pv_sum
                             + MulDiv(fcf, PowScale, Pow(One + wacc, year))]

\* the body of the projection loop for `year`, from the state prev
ProjectStep(prev, growth_rate, wacc, year) ==
    LET curr_fcf == MulDiv(prev.curr_fcf, One + growth_rate, One)
    IN  [curr_fcf |-> curr_fcf,
         pv_sum   |-> prev.pv_sum
                        + MulDiv(curr_fcf, PowScale, Pow(One + wacc, year))]

\* the state of the projection loop after `year` iterations
RECURSIVE ProjectLoop(_, _, _, _)
ProjectLoop(growth_rate, fcf, wacc, year) ==
    IF year = 0 THEN [curr_fcf |-> fcf, pv_sum |-> 0]
    ELSE Let(ProjectLoop(growth_rate, fcf, wacc, year - 1),
             LAMBDA prev : ProjectStep(prev, growth_rate, wacc, year))

\* terminal_val and pv_terminal
TerminalPV(curr_fcf, wacc, terminal_growth, years) ==
    LET terminal_val ==
            MulDiv(MulDiv(curr_fcf, One + terminal_growth, One),
                   One, wacc - terminal_growth)
    IN  MulDiv(terminal_val, PowScale, Pow(One + wacc, years))

\* the one denominator of terminal_val for which the division raises
TerminalDenominatorZero(wacc, terminal_growth) == wacc - terminal_growth = 0

\* None is the except branch: the division by wacc - terminal_growth = 0
calculate_dcf_ev(growth_rate, fcf, wacc, terminal_growth, years) ==
    IF TerminalDenominatorZero(wacc, terminal_growth) \/ One + wacc = 0
    THEN NoneVal
    ELSE Let(ProjectLoop(growth_rate, fcf, wacc, years),
             LAMBDA st : Some(st.pv_sum
                                + TerminalPV(st.curr_fcf, wacc, terminal_growth,
                                             years)))

(***************************************************************************)
(* bisection_solver.  The function it is given is always `equation` of     *)
(* reverse_dcf_solver, passed here as the record eq of the values that     *)
(* equation closes over: target_ev, fcf, wacc, terminal_growth, years.     *)
(***************************************************************************)
Huge == 2000000000
TolDen == 1000000
max_iter == 100

\* equation(g): 1e15 (Huge, beyond every amount of the model) when ev is None or 0
equation(eq, g) ==
    LET ev == calculate_dcf_ev(g, eq.fcf, eq.wacc, eq.terminal_growth, eq.years)
    IN  IF ~ev.isNone /\ ev.val # 0 THEN ev.val - eq.target_ev ELSE Huge

\* abs(x) < tol, for x counted in units of 1/scale and tol = 1/TolDen
BelowTol(x, scale) == Abs(x) <= (scale - 1) \div TolDen

\* fa * fb > 0 and fa * fc < 0, decided on the signs: the product of two
\* amounts does not fit the model's integers
ProductPositive(x, y) == Sign(x) * Sign(y) > 0
ProductNegative(x, y) == Sign(x) * Sign(y) < 0

\* (a + b) / 2
Midpoint(a, b) == (a + b) \div 2

\* one iteration of the for loop, from the state st = [a, b, fa, fb, done, ret]
BisectStep(eq, st) ==
    LET c == Midpoint(st.a, st.b)
    IN  Let(equation(eq, c),
            LAMBDA fc :
                IF BelowTol(fc, 1) \/ BelowTol(st.b - st.a, One)
                THEN [st EXCEPT !.done = TRUE, !.ret = c]
                ELSE IF ProductNegative(st.fa, fc)
                     THEN [st EXCEPT !.b = c, !.fb = fc]
                     ELSE [st EXCEPT !.a = c, !.fa = fc])

\* n iterations of the for loop from the state st.  A return ends the loop, and
\* an iteration that leaves a, b, fa, fb as they were is repeated unchanged by
\* every later one, so both end the evaluation; the iterations are split in
\* halves to keep the evaluation shallow.
RECURSIVE BisectLoop(_, _, _)
BisectLoop(eq, st, n) ==
    IF n = 0 \/ st.done THEN st
    ELSE IF n = 1 THEN BisectStep(eq, st)
    ELSE Let(BisectLoop(eq, st, n \div 2),
             LAMBDA half : IF half = st THEN st
                           ELSE BisectLoop(eq, half, n - n \div 2))

\* after max_iter iterations without a return, (a + b) / 2
bisection_solver(eq, a, b) ==
    Let([a |-> a, b |-> b, fa |-> equation(eq, a), fb |-> equation(eq, b),
         done |-> FALSE, ret |-> 0],
        LAMBDA st0 :
            IF ProductPositive(st0.fa, st0.fb) THEN Midpoint(a, b)
            ELSE Let(BisectLoop(eq, st0, max_iter),
                     LAMBDA st : IF st.done THEN st.ret
                                 ELSE Midpoint(st.a, st.b)))

(***************************************************************************)
(* scipy.optimize.brentq, a library routine: it raises ValueError when     *)
(* f(a) * f(b) > 0, returns an end point where f is 0, and otherwise       *)
(* returns a root of f inside the bracket to within xtol = 2e-12.  In the  *)
(* model the root is a rate of the grid where f is 0, or else the rate     *)
(* below which f changes sign (the root rounded downwards).                *)
(***************************************************************************)
RECURSIVE BrentSearch(_, _, _)
BrentSearch(eq, lo, hi) ==
    IF hi - lo <= 1 THEN lo
    ELSE LET c == Midpoint(lo, hi)
         IN  Let(equation(eq, c),
                 LAMBDA fc :
                     IF fc = 0 THEN c
                     ELSE IF ProductNegative(equation(eq, lo), fc)
                          THEN BrentSearch(eq, lo, c)
                          ELSE BrentSearch(eq, c, hi))

\* the mutant of brentq: without a sign change it returns the midpoint
brentq_midpoint(eq, a, b) ==
    IF ProductPositive(equation(eq, a), equation(eq, b))
    THEN [ValueError |-> FALSE, root |-> Midpoint(a, b)]
    ELSE [ValueError |-> FALSE, root |-> BrentSearch(eq, a, b)]

brentq(eq, a, b) ==
    LET fa == equation(eq, a)
        fb == equation(eq, b)
    IN  IF ProductPositive(fa, fb) THEN [ValueError |-> TRUE, root |-> 0]
        ELSE IF fa = 0 THEN [ValueError |-> FALSE, root |-> a]
        ELSE IF fb = 0 THEN [ValueError |-> FALSE, root |-> b]
        ELSE [ValueError |-> FALSE, root |-> BrentSearch(eq, a, b)]

(***************************************************************************)
(* reverse_dcf_solver                                                      *)
(***************************************************************************)
BracketLo == Pct(-30)
\* the mutant of BracketHi: a bracket that ends at 250%
BracketHi_wide == Pct(250)
BracketHi == Pct(200)
ScanLo == Pct(-20)
ScanHi == Pct(150)
ScanSamples == 200
Percent == 100
DefaultYears == 5

\* x / 100 for a widget's percent
Div100(x) == MulDiv(x, 1, Percent)

NoMessage == "None"
MsgWithin1Pct_empty == ""
MsgWithin1Pct == "Approximate solution (within 1% tolerance)"
MsgNoExactMatch == "Approximate solution (no exact match found)"
MsgError == "Error: unsupported operand type(s)"

\* np.linspace(start, stop, num)[i]: start + i * (stop - start) / (num - 1),
\* rounded to the nearest rate of the grid
Linspace(start, stop, num, i) ==
    start + (2 * i * (stop - start) + (num - 1)) \div (2 * (num - 1))

\* the mutant of Within1Pct: every value passes
Within1Pct_any(e, target_ev) == e = e

\* abs(e) < target_ev * 0.01, that is 100 * abs(e) < target_ev, without the product
Within1Pct(e, target_ev) ==
    target_ev > 0 /\ Abs(e) <= (target_ev - 1) \div Percent

\* one iteration of the fallback loop, for sample i; acc = [inf, min_diff, best_g]
ScanStep(eq, acc, i) ==
    LET g == Linspace(ScanLo, ScanHi, ScanSamples, i)
    IN  Let(calculate_dcf_ev(g, eq.fcf, eq.wacc, eq.terminal_growth, eq.years),
            LAMBDA ev :
                LET diff == Abs(ev.val - eq.target_ev)
                IN  IF ~ev.isNone /\ ev.val # 0
                       /\ (acc.inf \/ diff < acc.min_diff)
                    THEN [inf |-> FALSE, min_diff |-> diff, best_g |-> g]
                    ELSE acc)

\* The loop over the samples i .. i + n - 1, entered with min_diff = inf and
\* best_g = 0.  The loop keeps the first sample of the least diff (diff <
\* min_diff is strict), so the loop over a range is the loop over its first half
\* unless the second half holds a strictly smaller diff: computed by halves to
\* keep the evaluation shallow.
RECURSIVE ScanLoop(_, _, _)
ScanLoop(eq, i, n) ==
    IF n = 1 THEN ScanStep(eq, [inf |-> TRUE, min_diff |-> 0, best_g |-> 0], i)
    ELSE Let(<<ScanLoop(eq, i, n \div 2),
               ScanLoop(eq, i + n \div 2, n - n \div 2)>>,
             LAMBDA h : IF ~h[2].inf /\ (h[1].inf \/ h[2].min_diff < h[1].min_diff)
                        THEN h[2] ELSE h[1])

\* the loop over all of test_rates, and its best_g
FallbackScan(eq) == ScanLoop(eq, 0, ScanSamples).best_g

\* (implied_g * 100, success_flag, error_message); has_scipy is HAS_SCIPY
reverse_dcf_solver(target_ev, fcf, wacc, terminal_growth, years, has_scipy) ==
    LET eq == [target_ev |-> target_ev, fcf |-> fcf, wacc |-> wacc,
               terminal_growth |-> terminal_growth, years |-> years]
    IN  \* ev - target_ev raises TypeError, caught by except Exception
        IF target_ev = PyNone
        THEN [g |-> 0, success |-> FALSE, error_message |-> MsgError]
        ELSE IF has_scipy
        THEN Let(brentq(eq, BracketLo, BracketHi),
                 LAMBDA r :
                     IF r.ValueError
                     THEN [g |-> FallbackScan(eq) * Percent, success |-> FALSE,
                           error_message |-> MsgNoExactMatch]
                     ELSE [g |-> r.root * Percent, success |-> TRUE,
                           error_message |-> NoMessage])
        ELSE Let(bisection_solver(eq, BracketLo, BracketHi),
                 LAMBDA implied_g :
                     IF Within1Pct(equation(eq, implied_g), target_ev)
                     THEN [g |-> implied_g * Percent, success |-> TRUE,
                           error_message |-> NoMessage]
                     ELSE [g |-> implied_g * Percent, success |-> FALSE,
                           error_message |-> MsgWithin1Pct])

(***************************************************************************)
(* sensitivity_analysis                                                    *)
(***************************************************************************)
WaccSpread == Pct(3)
TermSpread == Pct(1)
GridPoints == 5

wacc_range(base_wacc, i) ==
    Linspace(base_wacc - WaccSpread, base_wacc + WaccSpread, GridPoints, i)

term_range(base_terminal, j) ==
    Linspace(base_terminal - TermSpread, base_terminal + TermSpread, GridPoints, j)

(***************************************************************************)
(* The values the model draws the program's inputs from                    *)
(***************************************************************************)
Tickers == {"NVDA", "AAPL"}
Prices == {0, 2000}
ShareCounts == {0, 100}
CashFlows == {-100, 0, 10000}
CashAmounts == {20000}
DebtAmounts == {5000}
FetchedMarketCaps == {0, 150000}
StockObjs ==
    { [beta |-> 0, interest_expense |-> -1, tax_rate |-> -1, raises |-> TRUE],
      [beta |-> Pct(150), interest_expense |-> 400, tax_rate |-> Pct(25),
        raises |-> FALSE] }

\* the percents the widgets hold: WACC within 1..30, terminal growth within
\* 0..10, growth within -50..100
WaccInputs == {Tenths(25), Tenths(100)}
TermInputs == {Tenths(25), Tenths(50)}
GrowthInputs == {Tenths(-500), Tenths(150), Tenths(1000)}
SensWaccInputs == {Tenths(25), Tenths(100)}
SensTermInputs == {Tenths(25)}

(***************************************************************************)
(* The calls of reverse_dcf_solver that the handlers make.  The model      *)
(* tabulates the solver once over the arguments the handlers can pass; a   *)
(* call takes its value from the table, or computes it when the arguments  *)
(* are not in it.                                                          *)
(***************************************************************************)
HandlerTargets ==
    { mc + d - c : mc \in FetchedMarketCaps \cup { p * n : p \in Prices, n \in ShareCounts },
                   d \in DebtAmounts, c \in CashAmounts }

HandlerRates ==
    { <<Div100(w), Div100(t)>> : w \in WaccInputs, t \in TermInputs }
      \cup { <<wacc_range(Div100(w), i), term_range(Div100(t), j)>> :
                w \in SensWaccInputs, t \in SensTermInputs,
                i \in 0 .. GridPoints - 1, j \in 0 .. GridPoints - 1 }

SolverArgs ==
    { <<target_ev, fcf, r[1], r[2], DefaultYears, has_scipy>> :
        target_ev \in HandlerTargets, fcf \in { f \in CashFlows : f > 0 },
        r \in { q \in HandlerRates : q[1] > q[2] }, has_scipy \in BOOLEAN }

SolverTable ==
    [ a \in SolverArgs |-> reverse_dcf_solver(a[1], a[2], a[3], a[4], a[5], a[6]) ]

\* a call of reverse_dcf_solver by a handler
Call_reverse_dcf_solver(target_ev, fcf, wacc, terminal_growth, years, has_scipy) ==
    LET a == <<target_ev, fcf, wacc, terminal_growth, years, has_scipy>>
    IN  IF a \in SolverArgs THEN SolverTable[a]
        ELSE reverse_dcf_solver(target_ev, fcf, wacc, terminal_growth, years,
                                has_scipy)

\* the mutant of ValidCombination: equal rates pass
ValidCombination_orEqual(wacc, term) == wacc >= term

\* if wacc > term
ValidCombination(wacc, term) == wacc > term

\* f"{x:.1f}%" of a percent x (held as x * One): the text, as the number of
\* tenths of a percent nearest to x
Format1(x) == (2 * 10 * x + One) \div (2 * One)

\* The rows appended by the first k passes of the inner loop body, pass k being
\* wacc_range[k div 5] with term_range[k mod 5].
RECURSIVE SensitivityRows(_, _, _, _, _, _, _)
SensitivityRows(fcf, target_ev, base_wacc, base_terminal, years, has_scipy, k) ==
    IF k = 0 THEN << >>
    ELSE LET results == SensitivityRows(fcf, target_ev, base_wacc, base_terminal,
                                        years, has_scipy, k - 1)
             wacc == wacc_range(base_wacc, (k - 1) \div GridPoints)
             term == term_range(base_terminal, (k - 1) % GridPoints)
         IN  IF ValidCombination(wacc, term)
             THEN Append(results,
                         [WACC |-> Format1(wacc * Percent),
                          Terminal |-> Format1(term * Percent),
                          ImpliedGrowth |->
                              Format1(Call_reverse_dcf_solver(target_ev, fcf, wacc,
                                                              term, years,
                                                              has_scipy).g)])
             ELSE results

sensitivity_analysis(fcf, target_ev, base_wacc, base_terminal, years, has_scipy) ==
    SensitivityRows(fcf, target_ev, base_wacc, base_terminal, years, has_scipy,
                    GridPoints * GridPoints)

(***************************************************************************)
(* calculate_wacc.  stock_obj is what yfinance holds for the ticker:       *)
(* beta (0: none), interest_expense (-1: no such row), tax_rate (-1: no    *)
(* tax rows, or pretax income not positive), raises (the statements cannot *)
(* be read).                                                               *)
(***************************************************************************)
DefaultWacc == Pct(10)
risk_free_rate == Permille(45)
market_return == Pct(10)
default_tax_rate == Pct(21)
default_cost_of_debt == Pct(5)
WaccFloor == Pct(3)
WaccCeiling == Pct(30)

\* return 0.10, {'method': 'default', 'reason': reason}
DefaultResult_silent(reason) ==
    [wacc |-> DefaultWacc, method |-> "default", reason |-> ""]

DefaultResult(reason) ==
    [wacc |-> DefaultWacc, method |-> "default", reason |-> reason]

\* (equity_weight * cost_of_equity) + (debt_weight * cost_of_debt * (1 - tax_rate))
WeightedAverage_plain(cost_of_equity, cost_of_debt, tax_rate, market_cap, total_debt) ==
    (cost_of_equity + MulDiv(cost_of_debt, One - tax_rate, One)) \div 2

WeightedAverage(cost_of_equity, cost_of_debt, tax_rate, market_cap, total_debt) ==
    MulDiv(market_cap, cost_of_equity, market_cap + total_debt)
      + MulDiv(total_debt, MulDiv(cost_of_debt, One - tax_rate, One),
               market_cap + total_debt)

calculate_wacc(data, stock_obj) ==
    LET market_cap == data.market_cap
        total_debt == data.total_debt
        beta == IF stock_obj.beta # 0 THEN stock_obj.beta ELSE One
        cost_of_equity ==
            IF beta = NaN THEN NaN
            ELSE risk_free_rate
                    + MulDiv(beta, market_return - risk_free_rate, One)
        read == total_debt > 0 /\ ~stock_obj.raises
        cost_of_debt ==
            IF read /\ stock_obj.interest_expense = NaN THEN NaN
            ELSE IF read /\ stock_obj.interest_expense >= 0
            THEN MulDiv(stock_obj.interest_expense, One, total_debt)
            ELSE default_cost_of_debt
        tax_rate ==
            IF read /\ stock_obj.tax_rate = NaN THEN NaN
            ELSE IF read /\ stock_obj.tax_rate >= 0 THEN stock_obj.tax_rate
            ELSE default_tax_rate
        total_value == market_cap + total_debt
        \* arithmetic on a NaN gives NaN
        wacc == IF NaN \in {cost_of_equity, cost_of_debt, tax_rate} THEN NaN
                ELSE WeightedAverage(cost_of_equity, cost_of_debt, tax_rate,
                                     market_cap, total_debt)
    IN  IF market_cap = 0 THEN DefaultResult("No market cap data")
        \* None + total_debt raises TypeError, caught by except Exception
        ELSE IF market_cap = PyNone
        THEN DefaultResult("Error: unsupported operand type(s)")
        ELSE IF total_value = 0 THEN DefaultResult("Zero total value")
        \* every comparison with a NaN is False
        ELSE IF wacc # NaN /\ (wacc < WaccFloor \/ wacc > WaccCeiling)
        THEN DefaultResult("WACC out of reasonable range")
        ELSE [wacc |-> wacc, method |-> "calculated", reason |-> NoMessage,
              cost_of_equity |-> cost_of_equity,
              market_cap |-> market_cap, total_debt |-> total_debt]

(***************************************************************************)
(* The Streamlit script.  Every press of a button runs the script once:    *)
(* the session state (stock_data, wacc_data) is kept from run to run, and  *)
(* what the run displays under the pressed button is `shown`.              *)
(*                                                                         *)
(* A number a widget holds in percent (10.0 for 10%) is the integer        *)
(* percent * One; the handlers divide it by 100 to get the rate.           *)
(***************************************************************************)
VARIABLES HAS_SCIPY, stock_data, wacc_data, shown, dcf_in, dcf_evals, solve,
          estimate, bisect, gate

vars == <<HAS_SCIPY, stock_data, wacc_data, shown, dcf_in, dcf_evals, solve,
          estimate, bisect, gate>>

NoStock == [isNone |-> TRUE]
NoWacc == [isNone |-> TRUE]
Nothing == [tab |-> "none"]

\* if fcf <= 0, in the three handlers
ReverseRejectsFcf_strict(fcf) == fcf < 0
ReverseRejectsFcf(fcf) == fcf <= 0
FundamentalRejectsFcf_strict(fcf) == fcf < 0
FundamentalRejectsFcf(fcf) == fcf <= 0
SensitivityRejectsFcf(fcf) == fcf <= 0

\* elif wacc/100 <= terminal_growth/100
FundamentalRejectsRates_strict(wacc, terminal_growth) ==
    Div100(wacc) < Div100(terminal_growth)
FundamentalRejectsRates(wacc, terminal_growth) ==
    Div100(wacc) <= Div100(terminal_growth)

\* elif wacc_decimal <= term_decimal
ReverseRejectsRates(wacc_decimal, term_decimal) == wacc_decimal <= term_decimal

(***************************************************************************)
(* Tab 1, "Calculate Implied Growth"                                       *)
(***************************************************************************)
ReverseDcf(data, term_growth_rev, wacc_rev, has_scipy) ==
    LET wacc_decimal == Div100(wacc_rev)
        term_decimal == Div100(term_growth_rev)
        fcf == data.free_cash_flow
        target_ev == data.market_cap + data.total_debt - data.cash
        r == Call_reverse_dcf_solver(target_ev, fcf, wacc_decimal, term_decimal,
                                     DefaultYears, has_scipy)
        inputs == [tab |-> "reverse", fcf |-> fcf, wacc |-> wacc_decimal,
                   term |-> term_decimal]
    IN  IF ReverseRejectsFcf(fcf)
        THEN [kind |-> "error_fcf"] @@ inputs
        ELSE IF ReverseRejectsRates(wacc_decimal, term_decimal)
        THEN [kind |-> "error_rates"] @@ inputs
        ELSE [kind |-> "solved", target_ev |-> target_ev, solver_fcf |-> fcf,
              implied_g |-> r.g, success |-> r.success,
              error_msg |-> r.error_message] @@ inputs

(***************************************************************************)
(* Tab 2, "Calculate Value"                                                *)
(***************************************************************************)
FundYears == 5

\* the projection loop after `year` iterations.  The FCF and PV of a row are
\* shown in billions; the model keeps them in currency units.
RECURSIVE FundLoop(_, _, _, _)
FundLoop(growth_d, fcf, wacc_d, year) ==
    IF year = 0 THEN [curr_fcf |-> fcf, total_pv |-> 0, projections |-> << >>]
    ELSE Let(FundLoop(growth_d, fcf, wacc_d, year - 1),
             LAMBDA prev :
                 LET curr_fcf == MulDiv(prev.curr_fcf, One + growth_d, One)
                     pv == MulDiv(curr_fcf, PowScale, Pow(One + wacc_d, year))
                 IN  [curr_fcf |-> curr_fcf,
                      total_pv |-> prev.total_pv + pv,
                      projections |->
                          Append(prev.projections,
                                 [Year |-> year, FCF |-> curr_fcf, PV |-> pv])])

\* the mutant of EquityValue: debt is added and cash subtracted
EquityValue_swapped(enterprise_value, data) ==
    enterprise_value - data.cash + data.total_debt

EquityValue(enterprise_value, data) ==
    enterprise_value + data.cash - data.total_debt

FundamentalDcf(data, growth_rate, terminal_growth, wacc) ==
    LET fcf == data.free_cash_flow
        wacc_d == Div100(wacc)
        growth_d == Div100(growth_rate)
        term_d == Div100(terminal_growth)
        loop == FundLoop(growth_d, fcf, wacc_d, FundYears)
        terminal_val ==
            MulDiv(MulDiv(loop.curr_fcf, One + term_d, One), One, wacc_d - term_d)
        pv_terminal == MulDiv(terminal_val, PowScale, Pow(One + wacc_d, FundYears))
        enterprise_value == loop.total_pv + pv_terminal
        equity_value == EquityValue(enterprise_value, data)
        intrinsic_value == equity_value \div data.shares_outstanding
        upside == MulDiv(intrinsic_value - data.current_price, Percent * One,
                         data.current_price)
        inputs == [tab |-> "fundamental", fcf |-> fcf, wacc |-> wacc_d,
                   term |-> term_d, growth |-> growth_d]
    IN  IF FundamentalRejectsFcf(fcf)
        THEN [kind |-> "error_fcf"] @@ inputs
        ELSE IF FundamentalRejectsRates(wacc, terminal_growth)
        THEN [kind |-> "error_rates"] @@ inputs
        ELSE IF wacc_d = term_d \/ data.shares_outstanding = 0
                \/ data.current_price = 0
        THEN [kind |-> "ZeroDivisionError"] @@ inputs
        ELSE [kind |-> "valuation", projections |-> loop.projections,
              total_pv |-> loop.total_pv, terminal_val |-> terminal_val,
              pv_terminal |-> pv_terminal,
              enterprise_value |-> enterprise_value,
              equity_value |-> equity_value,
              intrinsic_value |-> intrinsic_value, upside |-> upside] @@ inputs

(***************************************************************************)
(* Tab 3, "Run Sensitivity Analysis"                                       *)
(***************************************************************************)
SensitivityTab(data, base_wacc_sens, base_term_sens, has_scipy) ==
    LET fcf == data.free_cash_flow
        target_ev == data.market_cap + data.total_debt - data.cash
        inputs == [tab |-> "sensitivity", fcf |-> fcf,
                   base_wacc |-> Div100(base_wacc_sens),
                   base_term |-> Div100(base_term_sens)]
    IN  IF SensitivityRejectsFcf(fcf)
        THEN [kind |-> "error_fcf"] @@ inputs
        ELSE [kind |-> "table", target_ev |-> target_ev, solver_fcf |-> fcf,
              sens_df |-> sensitivity_analysis(fcf, target_ev,
                                               Div100(base_wacc_sens),
                                               Div100(base_term_sens),
                                               DefaultYears, has_scipy)] @@ inputs

(***************************************************************************)
(* The session: one action per button.  The fields revenue, net_income and *)
(* company_name of stock_data are shown and never computed with; the model *)
(* leaves them out.                                                        *)
(***************************************************************************)
\* what yfinance returns for a ticker
FetchSnapshots ==
    [ current_price : Prices, shares_outstanding : ShareCounts,
      market_cap : FetchedMarketCaps, free_cash_flow : CashFlows,
      total_debt : DebtAmounts, cash : CashAmounts ]

\* "Fetch Data" with a ticker typed in
Fetch(ticker_input, snap, stock_obj) ==
    LET new_data == [isNone |-> FALSE, ticker |-> ticker_input] @@ snap
        w == calculate_wacc(new_data, stock_obj)
    IN  /\ ticker_input # ""
        /\ IF new_data.current_price = 0
           THEN /\ shown' = [tab |-> "fetch", kind |-> "error_price"]
                /\ UNCHANGED <<stock_data, wacc_data>>
           ELSE /\ stock_data' = new_data
                /\ wacc_data' = [isNone |-> FALSE, wacc |-> w.wacc,
                                 components |-> [k \in DOMAIN w \ {"wacc"} |-> w[k]]]
                /\ shown' = [tab |-> "fetch", kind |-> "success",
                             method |-> w.method]
        /\ UNCHANGED <<HAS_SCIPY, dcf_in, dcf_evals, solve,
                       estimate, bisect, gate>>

\* "Fetch Data" when yfinance raises outside the inner try blocks
FetchRaises(ticker_input) ==
    /\ ticker_input # ""
    /\ shown' = [tab |-> "fetch", kind |-> "error_exception"]
    /\ UNCHANGED <<HAS_SCIPY, stock_data, wacc_data, dcf_in, dcf_evals, solve,
                   estimate, bisect, gate>>

\* "Update Data"; st.rerun() then draws the page anew
UpdateData(ticker_input, m_price, m_shares, m_fcf, m_cash, m_debt) ==
    /\ stock_data' = [isNone |-> FALSE, ticker |-> ticker_input,
                      current_price |-> m_price,
                      shares_outstanding |-> m_shares,
                      market_cap |-> m_price * m_shares,
                      free_cash_flow |-> m_fcf,
                      cash |-> m_cash, total_debt |-> m_debt]
    /\ shown' = Nothing
    /\ UNCHANGED <<HAS_SCIPY, wacc_data, dcf_in, dcf_evals, solve,
                   estimate, bisect, gate>>

\* "Calculate Implied Growth"
CalculateImpliedGrowth(term_growth_rev, wacc_rev) ==
    /\ ~stock_data.isNone
    /\ shown' = ReverseDcf(stock_data, term_growth_rev, wacc_rev, HAS_SCIPY)
    /\ UNCHANGED <<HAS_SCIPY, stock_data, wacc_data, dcf_in, dcf_evals, solve,
                   estimate, bisect, gate>>

\* "Calculate Value"
CalculateValue(growth_rate, terminal_growth, wacc) ==
    /\ ~stock_data.isNone
    /\ shown' = FundamentalDcf(stock_data, growth_rate, terminal_growth, wacc)
    /\ UNCHANGED <<HAS_SCIPY, stock_data, wacc_data, dcf_in, dcf_evals, solve,
                   estimate, bisect, gate>>

\* "Run Sensitivity Analysis"
RunSensitivityAnalysis(base_wacc_sens, base_term_sens) ==
    /\ ~stock_data.isNone
    /\ shown' = SensitivityTab(stock_data, base_wacc_sens, base_term_sens,
                               HAS_SCIPY)
    /\ UNCHANGED <<HAS_SCIPY, stock_data, wacc_data, dcf_in, dcf_evals, solve,
                   estimate, bisect, gate>>



Init ==
    /\ HAS_SCIPY \in BOOLEAN
    /\ stock_data = NoStock
    /\ wacc_data = NoWacc
    /\ shown = Nothing
    /\ dcf_in = Nothing
    /\ dcf_evals = << >>
    /\ solve = Nothing
    /\ estimate = Nothing
    /\ bisect = Nothing
    /\ gate = Nothing

Next ==
    \/ \E t \in Tickers, snap \in FetchSnapshots, o \in StockObjs : Fetch(t, snap, o)
    \/ \E t \in Tickers : FetchRaises(t)
    \/ \E t \in Tickers, p \in Prices, n \in ShareCounts, f \in CashFlows,
          c \in CashAmounts, d \in DebtAmounts : UpdateData(t, p, n, f, c, d)
    \/ \E tg \in TermInputs, w \in WaccInputs : CalculateImpliedGrowth(tg, w)
    \/ \E g \in GrowthInputs, tg \in TermInputs, w \in WaccInputs :
          CalculateValue(g, tg, w)
    \/ \E w \in SensWaccInputs, tg \in SensTermInputs :
          RunSensitivityAnalysis(w, tg)

Spec == Init /\ [][Next]_vars

(***************************************************************************)
(* calculate_dcf_ev on its own: the inputs are fixed at the start and the  *)
(* function is evaluated at one growth rate after another; dcf_evals holds *)
(* the last two evaluations.                                               *)
(***************************************************************************)
MaxYears == 4

DcfCashFlows == {10000, 50000}
DcfRates == {<<Pct(10), Permille(25)>>, <<Pct(5), Permille(25)>>,
             <<Permille(25), Permille(25)>>}
DcfGrowths == {Pct(-300), Pct(-200), Pct(-150), Pct(-100), Pct(-99), Pct(-50),
               Pct(-30), 0, Pct(15), Pct(200)}

InitDcf ==
    /\ dcf_in \in { [fcf |-> f, wacc |-> r[1], terminal_growth |-> r[2], years |-> y] :
                      f \in DcfCashFlows, r \in DcfRates, y \in 1 .. MaxYears }
    /\ dcf_evals = << >>
    /\ HAS_SCIPY = TRUE
    /\ stock_data = NoStock
    /\ wacc_data = NoWacc
    /\ shown = Nothing
    /\ solve = Nothing
    /\ estimate = Nothing
    /\ bisect = Nothing
    /\ gate = Nothing

Evaluate(growth_rate) ==
    LET ev == calculate_dcf_ev(growth_rate, dcf_in.fcf, dcf_in.wacc,
                               dcf_in.terminal_growth, dcf_in.years)
        e  == [growth_rate |-> growth_rate, ev |-> ev]
    IN  /\ dcf_evals' = IF Len(dcf_evals) < 2 THEN Append(dcf_evals, e)
                        ELSE <<dcf_evals[2], e>>
        /\ UNCHANGED <<HAS_SCIPY, stock_data, wacc_data, shown, dcf_in, solve,
                       estimate, bisect, gate>>

NextDcf == \E g \in DcfGrowths : Evaluate(g)

SpecDcf == InitDcf /\ [][NextDcf]_vars

(***************************************************************************)
(* reverse_dcf_solver on its own, with the arguments the handlers can give *)
(* it (fcf > 0, wacc > terminal_growth, years = 5): solve holds the last   *)
(* call and its result.                                                    *)
(***************************************************************************)
SolverCashFlows == {10000, 50000}
SolverRates == {<<Pct(10), Permille(25)>>, <<Pct(5), Permille(25)>>,
                <<Pct(8), Pct(2)>>}
RoundTripGrowths == {Pct(-50), Pct(-30), Pct(-30) + 1, Pct(-15), 0, Pct(15), Pct(50),
                     Pct(200) - 1, Pct(200), Pct(250)}
SolverTargets == {PyNone, -5000, 0, 100, 150000, 400000, 1000000000}
SolverYears == {1, 3}

InitSolver ==
    /\ HAS_SCIPY \in BOOLEAN
    /\ solve = Nothing
    /\ stock_data = NoStock
    /\ wacc_data = NoWacc
    /\ shown = Nothing
    /\ dcf_in = Nothing
    /\ dcf_evals = << >>
    /\ estimate = Nothing
    /\ bisect = Nothing
    /\ gate = Nothing

SolveCallYears(kind, g0, target_ev, fcf, wacc, terminal_growth, years) ==
    LET r == reverse_dcf_solver(target_ev, fcf, wacc, terminal_growth,
                                years, HAS_SCIPY)
    IN  [tab |-> kind, g0 |-> g0, target_ev |-> target_ev, fcf |-> fcf,
         wacc |-> wacc, terminal_growth |-> terminal_growth,
         years |-> years, g |-> r.g, success |-> r.success,
         error_message |-> r.error_message]

SolveCall(kind, g0, target_ev, fcf, wacc, terminal_growth) ==
    SolveCallYears(kind, g0, target_ev, fcf, wacc, terminal_growth, DefaultYears)

\* the target is the enterprise value of the growth rate g0
SolveRoundTrip(g0, fcf, wacc, terminal_growth) ==
    /\ solve = Nothing
    /\ solve' = SolveCall("round_trip", g0,
                          calculate_dcf_ev(g0, fcf, wacc, terminal_growth,
                                           DefaultYears).val,
                          fcf, wacc, terminal_growth)
    /\ UNCHANGED <<HAS_SCIPY, stock_data, wacc_data, shown, dcf_in, dcf_evals,
                   estimate, bisect, gate>>

\* the target is any amount
SolveTarget(target_ev, fcf, wacc, terminal_growth) ==
    /\ solve = Nothing
    /\ solve' = SolveCall("target", 0, target_ev, fcf, wacc, terminal_growth)
    /\ UNCHANGED <<HAS_SCIPY, stock_data, wacc_data, shown, dcf_in, dcf_evals,
                   estimate, bisect, gate>>

\* the target is any amount and years is given, not left to its default
SolveYears(target_ev, fcf, wacc, terminal_growth, years) ==
    /\ solve = Nothing
    /\ solve' = SolveCallYears("years", 0, target_ev, fcf, wacc,
                               terminal_growth, years)
    /\ UNCHANGED <<HAS_SCIPY, stock_data, wacc_data, shown, dcf_in, dcf_evals,
                   estimate, bisect, gate>>

\* the caller is done with the result
Return ==
    /\ solve # Nothing
    /\ solve' = Nothing
    /\ UNCHANGED <<HAS_SCIPY, stock_data, wacc_data, shown, dcf_in, dcf_evals,
                   estimate, bisect, gate>>

NextSolver ==
    \/ \E g0 \in RoundTripGrowths, f \in SolverCashFlows, r \in SolverRates :
          SolveRoundTrip(g0, f, r[1], r[2])
    \/ \E t \in SolverTargets, f \in SolverCashFlows, r \in SolverRates :
          SolveTarget(t, f, r[1], r[2])
    \/ \E t \in SolverTargets, f \in SolverCashFlows, r \in SolverRates,
          y \in SolverYears :
          SolveYears(t, f, r[1], r[2], y)
    \/ Return

SpecSolver == InitSolver /\ [][NextSolver]_vars

(***************************************************************************)
(* calculate_wacc on its own, with what yfinance can hold for a company:   *)
(* estimate holds the last call and its result.                            *)
(***************************************************************************)
WaccMarketCaps == {0, PyNone, 50000, 150000}
WaccDebts == {0, 5000, 100000}
WaccBetas == {0, Pct(-100), Pct(100), Pct(150), Pct(500), NaN}
WaccInterest == {-1, 400, 40000, NaN}
WaccTaxRates == {-1, Pct(25), NaN}

InitWacc ==
    /\ estimate = Nothing
    /\ HAS_SCIPY = TRUE
    /\ stock_data = NoStock
    /\ wacc_data = NoWacc
    /\ shown = Nothing
    /\ dcf_in = Nothing
    /\ dcf_evals = << >>
    /\ solve = Nothing
    /\ bisect = Nothing
    /\ gate = Nothing

EstimateWacc(data, stock_obj) ==
    /\ estimate = Nothing
    /\ estimate' = [tab |-> "wacc", data |-> data, stock_obj |-> stock_obj,
                    result |-> calculate_wacc(data, stock_obj)]
    /\ UNCHANGED <<HAS_SCIPY, stock_data, wacc_data, shown, dcf_in, dcf_evals,
                   solve, bisect, gate>>

\* the caller is done with the result
ReturnWacc ==
    /\ estimate # Nothing
    /\ estimate' = Nothing
    /\ UNCHANGED <<HAS_SCIPY, stock_data, wacc_data, shown, dcf_in, dcf_evals,
                   solve, bisect, gate>>

NextWacc ==
    \/ \E m \in WaccMarketCaps, d \in WaccDebts, b \in WaccBetas,
          i \in WaccInterest, t \in WaccTaxRates, x \in BOOLEAN :
          EstimateWacc([market_cap |-> m, total_debt |-> d],
                       [beta |-> b, interest_expense |-> i, tax_rate |-> t,
                        raises |-> x])
    \/ ReturnWacc

SpecWacc == InitWacc /\ [][NextWacc]_vars

(***************************************************************************)
(* bisection_solver on its own, one loop iteration at a time: bisect holds *)
(* the function (equation, with its closure eq), the locals a, b, fa, fb,  *)
(* the number of iterations begun, the number of evaluations of the        *)
(* function, and where the call is.                                        *)
(***************************************************************************)
BisectBrackets == {<<BracketLo, BracketHi>>, <<0, Pct(100)>>}
BisectFixedTargets == {100, 150000, 400000}

\* the targets: amounts, and the values of the function at the ends of the
\* bracket, for which f is 0 there
BisectTargets(fcf, wacc, terminal_growth, a, b) ==
    BisectFixedTargets
      \cup { calculate_dcf_ev(g, fcf, wacc, terminal_growth, DefaultYears).val :
               g \in {a, b} }

InitBisect ==
    /\ bisect = Nothing
    /\ HAS_SCIPY = FALSE
    /\ stock_data = NoStock
    /\ wacc_data = NoWacc
    /\ shown = Nothing
    /\ dcf_in = Nothing
    /\ dcf_evals = << >>
    /\ solve = Nothing
    /\ estimate = Nothing
    /\ gate = Nothing

\* the loop is over: range(max_iter) is exhausted
LoopExhausted_never(iter) == FALSE
LoopExhausted(iter) == iter >= max_iter

\* the call, up to the for statement
BisectEnter(eq, a, b) ==
    /\ bisect = Nothing
    /\ LET fa == equation(eq, a)
           fb == equation(eq, b)
       IN  bisect' =
             [tab |-> "bisect", eq |-> eq, fa0 |-> fa, fb0 |-> fb,
              iter |-> 0, evals |-> 2,
              pc |-> IF ProductPositive(fa, fb) THEN "returned" ELSE "loop",
              st |-> [a |-> a, b |-> b, fa |-> fa, fb |-> fb,
                      done |-> FALSE, ret |-> Midpoint(a, b)]]
    /\ UNCHANGED <<HAS_SCIPY, stock_data, wacc_data, shown, dcf_in, dcf_evals,
                   solve, estimate, gate>>

\* one iteration of the for loop
BisectIterate ==
    /\ bisect.tab = "bisect"
    /\ bisect.pc = "loop"
    /\ ~LoopExhausted(bisect.iter)
    /\ LET st == BisectStep(bisect.eq, bisect.st)
       IN  bisect' = [bisect EXCEPT !.st = st, !.iter = @ + 1, !.evals = @ + 1,
                                    !.pc = IF st.done THEN "returned" ELSE "loop"]
    /\ UNCHANGED <<HAS_SCIPY, stock_data, wacc_data, shown, dcf_in, dcf_evals,
                   solve, estimate, gate>>

\* the return after the loop
BisectExhaust ==
    /\ bisect.tab = "bisect"
    /\ bisect.pc = "loop"
    /\ LoopExhausted(bisect.iter)
    /\ bisect' = [bisect EXCEPT !.pc = "returned",
                                !.st.ret = Midpoint(bisect.st.a, bisect.st.b)]
    /\ UNCHANGED <<HAS_SCIPY, stock_data, wacc_data, shown, dcf_in, dcf_evals,
                   solve, estimate, gate>>

\* the caller is done with the result
BisectReturn ==
    /\ bisect.tab = "bisect"
    /\ bisect.pc = "returned"
    /\ bisect' = Nothing
    /\ UNCHANGED <<HAS_SCIPY, stock_data, wacc_data, shown, dcf_in, dcf_evals,
                   solve, estimate, gate>>

NextBisect ==
    \/ \E f \in SolverCashFlows, r \in SolverRates, br \in BisectBrackets :
          \E t \in BisectTargets(f, r[1], r[2], br[1], br[2]) :
             BisectEnter([target_ev |-> t, fcf |-> f, wacc |-> r[1],
                          terminal_growth |-> r[2], years |-> DefaultYears],
                         br[1], br[2])
    \/ BisectIterate
    \/ BisectExhaust
    \/ BisectReturn

SpecBisect == InitBisect /\ [][NextBisect]_vars

(***************************************************************************)
(* The tests that stand between a pair of rates and the terminal-value     *)
(* division, at a finer scale than the rest of the model: here a rate r is *)
(* the integer r * FineOne, one unit being 0.00001 of a percentage point,  *)
(* and a widget's percent p is p * FineOne.  gate records what one pass    *)
(* through a test did with the pair: rejected (an error message, a skipped *)
(* grid cell, a None), and what became of the division                     *)
(* curr_fcf * (1 + terminal_growth) / (wacc - terminal_growth).            *)
(***************************************************************************)
FineOne == 10000000

\* rates around 2.5%, one unit and ten units apart, and rates far apart
GateTerms == {0, 250000, 250001, 300000}
GateWaccs == {249999, 250000, 250001, 250009, 250010, 250011, 300000, 1000000}
GateFcfs == {0, 10000}

InitGate ==
    /\ HAS_SCIPY \in BOOLEAN
    /\ stock_data = NoStock
    /\ wacc_data = NoWacc
    /\ shown = Nothing
    /\ dcf_in = Nothing
    /\ dcf_evals = 0
    /\ solve = Nothing
    /\ estimate = Nothing
    /\ bisect = Nothing
    /\ gate = Nothing

\* what the first call of equation does with the rates a test let through
GateDivision(rejected, wacc, terminal_growth) ==
    IF rejected THEN "none"
    ELSE IF TerminalDenominatorZero(wacc, terminal_growth) THEN "raised"
    ELSE "evaluated"

\* 'Calculate Implied Growth' up to the call of reverse_dcf_solver
GateReverse(fcf, wacc_rev, term_growth_rev) ==
    /\ gate.tab = "none"
    /\ LET wacc_decimal == Div100(wacc_rev)
           term_decimal == Div100(term_growth_rev)
           rejected == \/ ReverseRejectsFcf(fcf)
                       \/ ReverseRejectsRates(wacc_decimal, term_decimal)
       IN  gate' = [tab |-> "gate", path |-> "reverse", fcf |-> fcf,
                    wacc |-> wacc_decimal, term |-> term_decimal,
                    rejected |-> rejected,
                    division |-> GateDivision(rejected, wacc_decimal,
                                              term_decimal)]
    /\ UNCHANGED <<HAS_SCIPY, stock_data, wacc_data, shown, dcf_in, dcf_evals,
                   solve, estimate, bisect>>

\* 'Calculate Value' up to the terminal value
GateFundamental(fcf, wacc, terminal_growth) ==
    /\ gate.tab = "none"
    /\ LET rejected == \/ FundamentalRejectsFcf(fcf)
                       \/ FundamentalRejectsRates(wacc, terminal_growth)
       IN  gate' = [tab |-> "gate", path |-> "fundamental", fcf |-> fcf,
                    wacc |-> Div100(wacc), term |-> Div100(terminal_growth),
                    rejected |-> rejected,
                    division |-> GateDivision(rejected, Div100(wacc),
                                              Div100(terminal_growth))]
    /\ UNCHANGED <<HAS_SCIPY, stock_data, wacc_data, shown, dcf_in, dcf_evals,
                   solve, estimate, bisect>>

\* one cell of the grid of sensitivity_analysis, wacc and term being the
\* values np.linspace gave for its row and its column
GateSensitivity(fcf, wacc, term) ==
    /\ gate.tab = "none"
    /\ LET rejected == SensitivityRejectsFcf(fcf) \/ ~ValidCombination(wacc, term)
       IN  gate' = [tab |-> "gate", path |-> "sensitivity", fcf |-> fcf,
                    wacc |-> wacc, term |-> term, rejected |-> rejected,
                    division |-> GateDivision(rejected, wacc, term)]
    /\ UNCHANGED <<HAS_SCIPY, stock_data, wacc_data, shown, dcf_in, dcf_evals,
                   solve, estimate, bisect>>

\* a call of calculate_dcf_ev: it tests nothing before it divides, and
\* returns None when the division raised
GateProjection(fcf, wacc, terminal_growth) ==
    /\ gate.tab = "none"
    /\ gate' = [tab |-> "gate", path |-> "projection", fcf |-> fcf,
                wacc |-> wacc, term |-> terminal_growth,
                rejected |-> TerminalDenominatorZero(wacc, terminal_growth),
                division |-> GateDivision(FALSE, wacc, terminal_growth)]
    /\ UNCHANGED <<HAS_SCIPY, stock_data, wacc_data, shown, dcf_in, dcf_evals,
                   solve, estimate, bisect>>

\* the pass is over
GateReturn ==
    /\ gate.tab = "gate"
    /\ gate' = Nothing
    /\ UNCHANGED <<HAS_SCIPY, stock_data, wacc_data, shown, dcf_in, dcf_evals,
                   solve, estimate, bisect>>

NextGate ==
    \/ \E f \in GateFcfs, w \in GateWaccs, t \in GateTerms :
          GateReverse(f, w * Percent, t * Percent)
    \/ \E f \in GateFcfs, w \in GateWaccs, t \in GateTerms :
          GateFundamental(f, w * Percent, t * Percent)
    \/ \E f \in GateFcfs, w \in GateWaccs, t \in GateTerms :
          GateSensitivity(f, w, t)
    \/ \E f \in GateFcfs \ {0}, w \in GateWaccs, t \in GateTerms :
          GateProjection(f, w, t)
    \/ GateReturn

SpecGate == InitGate /\ [][NextGate]_vars

(***************************************************************************)
(* The properties checked                                                  *)
(***************************************************************************)
\* the arguments of the call that solve holds, as equation closes over them
SolveEq ==
    [target_ev |-> solve.target_ev, fcf |-> solve.fcf, wacc |-> solve.wacc,
     terminal_growth |-> solve.terminal_growth, years |-> solve.years]

\* the rate implied_g behind the percent that the call returned
SolveRate == solve.g \div Percent

\* f has the same sign at both ends of the bracket
NoBracket ==
    /\ solve.tab # "none"
    /\ solve.target_ev # PyNone
    /\ \/ equation(SolveEq, BracketLo) > 0 /\ equation(SolveEq, BracketHi) > 0
       \/ equation(SolveEq, BracketLo) < 0 /\ equation(SolveEq, BracketHi) < 0

\* C1 (as stated): solving for the enterprise value of any growth rate g0
\* returns g0 again, in the unit of g0, to within one step of the rate grid.
C1_RoundTripSameUnit ==
    solve.tab = "round_trip" => Abs(solve.g - solve.g0) <= 1

\* C1, the failing input: without scipy, the enterprise value of g0 = -0.30
\* (the lower end of the bracket) is solved to a percent above 199 and reported
\* as not converged.
C1_LowerEndLost ==
    /\ solve.tab = "round_trip"
    /\ ~HAS_SCIPY
    /\ solve.g0 = BracketLo
    /\ solve.g > Pct(199) * Percent
    /\ ~solve.success

\* C2: "Calculate Value" with a free cash flow <= 0 shows the cash-flow error,
\* and a valuation is shown only for a free cash flow > 0.
C2_NonPositiveCashFlowRejected ==
    shown.tab = "fundamental" =>
        /\ shown.fcf <= 0 => shown.kind = "error_fcf"
        /\ shown.kind = "valuation" => shown.fcf > 0

\* C2, the case: "Calculate Value" was pressed with a free cash flow of 0 and
\* shows the cash-flow error.
C2_ZeroCashFlowRejected ==
    shown.tab = "fundamental" /\ shown.fcf = 0 /\ shown.kind = "error_fcf"

\* C3: "Calculate Value" with WACC equal to or below the terminal growth shows
\* no valuation: with a free cash flow > 0 it shows the invalid-parameters
\* error (with one <= 0, the cash-flow error, which is tested first).
C3_InvalidRatesRejected ==
    shown.tab = "fundamental" /\ shown.wacc <= shown.term =>
        /\ shown.kind \in {"error_fcf", "error_rates"}
        /\ shown.fcf > 0 => shown.kind = "error_rates"

\* C3, the case: "Calculate Value" was pressed with WACC equal to the terminal
\* growth and a free cash flow > 0, and shows the invalid-parameters error.
C3_EqualRatesRejected ==
    /\ shown.tab = "fundamental"
    /\ shown.wacc = shown.term
    /\ shown.fcf > 0
    /\ shown.kind = "error_rates"

\* C4 (as stated): for fcf > 0, wacc > terminal growth and any years >= 1, of
\* any two growth rates the smaller has the strictly smaller enterprise value.
C4_IncreasingInGrowth ==
    Len(dcf_evals) = 2 /\ dcf_in.fcf > 0 /\ dcf_in.wacc > dcf_in.terminal_growth
      /\ dcf_evals[1].growth_rate < dcf_evals[2].growth_rate
    => dcf_evals[1].ev.val < dcf_evals[2].ev.val

\* C4 (amended): for fcf > 0 and wacc > terminal growth, of two growth rates
\* g1 < g2 the smaller has the strictly smaller enterprise value when
\* g1 >= -100%, for any years >= 1, and when the number of years is odd (the
\* default 5 among them), for any g1.
C4_IncreasingFromMinusOne ==
    Len(dcf_evals) = 2 /\ dcf_in.fcf > 0 /\ dcf_in.wacc > dcf_in.terminal_growth
      /\ dcf_evals[1].growth_rate < dcf_evals[2].growth_rate
      /\ (dcf_evals[1].growth_rate >= -One \/ dcf_in.years % 2 = 1)
    => dcf_evals[1].ev.val < dcf_evals[2].ev.val

\* C4, the case: over 2 years, the growth rates -100% and -50% were
\* evaluated, and the enterprise values are in the same order.
C4_NegativeGrowthPair ==
    /\ Len(dcf_evals) = 2
    /\ dcf_in.years = 2
    /\ dcf_in.wacc > dcf_in.terminal_growth
    /\ dcf_evals[1].growth_rate = -One
    /\ dcf_evals[2].growth_rate = Pct(-50)
    /\ dcf_evals[1].ev.val < dcf_evals[2].ev.val

\* C5 (as stated): when f has the same sign at both ends of the bracket, the
\* solver returns the sample of the scan over [-0.20, 1.50] that minimises
\* |f|, as a percent, and reports it as not converged, with scipy and without.
C5_NoBracketScans ==
    NoBracket => /\ solve.g = FallbackScan(SolveEq) * Percent
                 /\ ~solve.success

\* C5, the failing input: without scipy and with f of one sign at both ends, the
\* solver returns the midpoint of the bracket, 85%, which is not the sample the
\* scan finds.
C5_BisectionMidpoint ==
    /\ NoBracket
    /\ ~HAS_SCIPY
    /\ solve.g = Pct(85) * Percent
    /\ solve.g # FallbackScan(SolveEq) * Percent

\* C6: when f has the same sign at both ends of the bracket, the solver
\* returns a result (it raises nothing) that is not converged and carries a
\* message that is not empty.
C6_NoRootNotConverged ==
    NoBracket => /\ solve.success = FALSE
                 /\ solve.error_message \notin {NoMessage, ""}

\* C6, the case: the target 100 is below every enterprise value of the
\* bracket, and the solver using brentq returned not converged with the message
\* of the fallback scan.
C6_TargetBelowRange ==
    /\ NoBracket
    /\ HAS_SCIPY
    /\ solve.target_ev = 100
    /\ ~solve.success
    /\ solve.error_message = MsgNoExactMatch

\* C7: when the solver reports converged, f at the returned rate is within
\* tolerance of zero: with brentq, f is zero there or changes sign within one
\* step of the rate grid; with the bisection, |f| is below 1% of the target.
C7_ConvergedNearRoot ==
    solve.tab # "none" /\ solve.success =>
        LET f0 == equation(SolveEq, SolveRate)
            f1 == equation(SolveEq, SolveRate + 1)
        IN  IF HAS_SCIPY
            THEN f0 = 0 \/ (f0 < 0 /\ f1 > 0) \/ (f0 > 0 /\ f1 < 0)
            ELSE solve.target_ev > 0 /\ Abs(f0) <= (solve.target_ev - 1) \div 100

\* C7, the case: the bisection solved for the target 150000, which no rate of
\* the grid reproduces exactly, and reported converged.
C7_ConvergedOffGrid ==
    /\ solve.tab = "target"
    /\ ~HAS_SCIPY
    /\ solve.target_ev = 150000
    /\ solve.success
    /\ equation(SolveEq, SolveRate) # 0

\* C8: "Calculate Implied Growth" and "Run Sensitivity Analysis" with a free
\* cash flow <= 0 show the cash-flow error, and whenever either called the
\* solver, the free cash flow it passed was > 0.
C8_SolverNeverGivenNonPositive ==
    shown.tab \in {"reverse", "sensitivity"} =>
        /\ shown.fcf <= 0 => shown.kind = "error_fcf"
        /\ shown.kind \in {"solved", "table"} => shown.solver_fcf > 0

\* C8, the case: "Run Sensitivity Analysis" was pressed with a free cash flow
\* of 0 and shows the cash-flow error.
C8_SensitivityRejected ==
    shown.tab = "sensitivity" /\ shown.fcf = 0 /\ shown.kind = "error_fcf"

\* the 25 combinations of the grid as pairs of rates, for the bases shown
GridCombinations ==
    { <<i, j>> : i \in 0 .. 4, j \in 0 .. 4 }

GridInvalid ==
    { c \in GridCombinations :
        wacc_range(shown.base_wacc, c[1]) <= term_range(shown.base_term, c[2]) }

\* C9: the table of the sensitivity analysis has 25 rows less one for each
\* combination with WACC <= terminal growth, every row has WACC > terminal
\* growth, and every other combination has exactly one row.
C9_GridRows ==
    shown.tab = "sensitivity" /\ shown.kind = "table" =>
        LET rows == shown.sens_df
        IN  /\ Cardinality(GridCombinations) = 25
            /\ Len(rows) = 25 - Cardinality(GridInvalid)
            /\ \A k \in 1 .. Len(rows) : rows[k].WACC > rows[k].Terminal
            /\ \A c \in GridCombinations \ GridInvalid :
                  Cardinality({ k \in 1 .. Len(rows) :
                                  /\ rows[k].WACC =
                                        Format1(wacc_range(shown.base_wacc, c[1])
                                                  * Percent)
                                  /\ rows[k].Terminal =
                                        Format1(term_range(shown.base_term, c[2])
                                                  * Percent) }) = 1

\* C9, the case: the analysis ran with base WACC equal to the base terminal
\* growth, so that the grid holds a combination of equal rates, and the table
\* has fewer than 25 rows.
C9_EqualRatesSkipped ==
    /\ shown.tab = "sensitivity"
    /\ shown.kind = "table"
    /\ shown.base_wacc = shown.base_term
    /\ Len(shown.sens_df) < 25
    /\ Len(shown.sens_df) > 0

\* the sum of the PV column of the projections
RECURSIVE SumPV(_, _)
SumPV(projections, k) ==
    IF k = 0 THEN 0 ELSE SumPV(projections, k - 1) + projections[k].PV

\* C10: a valuation shown by "Calculate Value" satisfies: the FCF of year k is
\* the FCF of year k - 1 (the base for k = 1) times 1 + g, and its PV is that
\* FCF over (1 + wacc)^k; the terminal value is the last FCF times 1 + tg over
\* wacc - tg, discounted by (1 + wacc)^5; the enterprise value is the sum of the
\* PVs plus the discounted terminal value; the equity value is the enterprise
\* value plus cash less debt; the value per share is the equity value over the
\* shares; and calculate_dcf_ev gives the same enterprise value.
C10_ValuationIdentities ==
    shown.tab = "fundamental" /\ shown.kind = "valuation" =>
        LET p == shown.projections
            prev(k) == IF k = 1 THEN shown.fcf ELSE p[k - 1].FCF
        IN  /\ Len(p) = 5
            /\ \A k \in 1 .. 5 :
                  /\ p[k].FCF = MulDiv(prev(k), One + shown.growth, One)
                  /\ p[k].PV = MulDiv(p[k].FCF, PowScale, Pow(One + shown.wacc, k))
            /\ shown.terminal_val =
                  MulDiv(MulDiv(p[5].FCF, One + shown.term, One),
                         One, shown.wacc - shown.term)
            /\ shown.pv_terminal =
                  MulDiv(shown.terminal_val, PowScale, Pow(One + shown.wacc, 5))
            /\ shown.enterprise_value = SumPV(p, 5) + shown.pv_terminal
            /\ shown.equity_value =
                  shown.enterprise_value + stock_data.cash - stock_data.total_debt
            /\ shown.intrinsic_value =
                  shown.equity_value \div stock_data.shares_outstanding
            /\ calculate_dcf_ev(shown.growth, shown.fcf, shown.wacc, shown.term, 5)
                  = Some(shown.enterprise_value)

\* C10, the case: a valuation is shown for a company whose cash differs from
\* its debt, with a growth rate below zero.
C10_ValuationShown ==
    /\ shown.tab = "fundamental"
    /\ shown.kind = "valuation"
    /\ stock_data.cash # stock_data.total_debt
    /\ shown.growth < 0
    /\ shown.equity_value # shown.enterprise_value

\* the result of the last call of calculate_wacc
WaccResult == estimate.result

\* C11 (as stated): every rate calculate_wacc returns lies in [3%, 30%].
C11_RateWithinBounds ==
    estimate.tab = "wacc" =>
        WaccResult.wacc >= WaccFloor /\ WaccResult.wacc <= WaccCeiling

\* C11, the failing input: with debt and an interest expense that is NaN, the
\* rate returned is NaN, marked as calculated.
C11_NaNReturned ==
    /\ estimate.tab = "wacc"
    /\ estimate.data.total_debt > 0
    /\ estimate.stock_obj.interest_expense = NaN
    /\ estimate.stock_obj.beta = Pct(150)
    /\ WaccResult.wacc = NaN
    /\ WaccResult.method = "calculated"

\* C12 (as stated): with no debt and a market cap > 0, the rate returned is
\* the CAPM cost of equity of the company's beta.
C12_NoDebtCostOfEquity ==
    estimate.tab = "wacc" /\ estimate.data.total_debt = 0
      /\ estimate.data.market_cap > 0
    => /\ WaccResult.method = "calculated"
       /\ WaccResult.wacc = WaccResult.cost_of_equity

\* the CAPM cost of equity of the last call, when its beta is a number
WaccBeta == IF estimate.stock_obj.beta = 0 THEN One ELSE estimate.stock_obj.beta
WaccCapm == risk_free_rate + MulDiv(WaccBeta, market_return - risk_free_rate, One)

\* C12 (amended): with no debt and a market cap > 0, when the CAPM cost of
\* equity is a number within [3%, 30%], the rate returned is that cost of
\* equity, marked as calculated (with beta 1.0, 10%); when it is a number
\* outside, the default 10% is returned.
C12_NoDebtCostOfEquityInRange ==
    estimate.tab = "wacc" /\ estimate.data.total_debt = 0
      /\ estimate.data.market_cap > 0 /\ WaccBeta # NaN
    => IF WaccCapm >= WaccFloor /\ WaccCapm <= WaccCeiling
       THEN /\ WaccResult.method = "calculated"
            /\ WaccResult.wacc = WaccCapm
            /\ WaccResult.cost_of_equity = WaccResult.wacc
       ELSE WaccResult.method = "default" /\ WaccResult.wacc = DefaultWacc

\* C12, the case: no debt, beta 1.5, and the rate returned is the cost of
\* equity 12.75%.
C12_NoDebtBeta ==
    /\ estimate.tab = "wacc"
    /\ estimate.data.total_debt = 0
    /\ estimate.data.market_cap > 0
    /\ estimate.stock_obj.beta = Pct(150)
    /\ WaccResult.method = "calculated"
    /\ WaccResult.wacc = Permille(45) + MulDiv(Pct(150), Permille(55), One)

\* C13: every call of calculate_wacc returns a rate and a breakdown whose
\* method is 'calculated' or 'default', with a reason when it is 'default'.
C13_MethodAndReason ==
    estimate.tab = "wacc" =>
        /\ WaccResult.method \in {"calculated", "default"}
        /\ WaccResult.method = "default" =>
              WaccResult.reason \notin {NoMessage, ""}

\* C13, the case: the market cap is None, the sum with the debt raises, and
\* the default is returned with the error as the reason.
C13_MissingMarketCap ==
    /\ estimate.tab = "wacc"
    /\ estimate.data.market_cap = PyNone
    /\ WaccResult.method = "default"
    /\ WaccResult.wacc = DefaultWacc
    /\ WaccResult.reason \notin {NoMessage, ""}

\* C14: in every result of the solver the message is present if and only if
\* the result is not converged, and a message that is present is not empty.
C14_MessageIffNotConverged ==
    solve.tab # "none" =>
        /\ solve.success <=> solve.error_message = NoMessage
        /\ ~solve.success => solve.error_message # ""

\* C14, the case: the bisection returned, for a target outside the bracket, a
\* result that is not converged, with its message.
C14_BisectionNotConverged ==
    /\ solve.tab = "target"
    /\ ~HAS_SCIPY
    /\ solve.target_ev = 1000000000
    /\ ~solve.success
    /\ solve.error_message = "Approximate solution (within 1% tolerance)"

\* C15: a call of bisection_solver begins at most max_iter = 100 iterations of
\* its loop and evaluates the function at most max_iter + 2 times; and it
\* cannot go on for ever: every step of a call that is in the loop begins the
\* next iteration or returns.
C15_BoundedAndReturns ==
    /\ [](bisect.tab = "bisect" =>
            /\ bisect.iter <= 100
            /\ bisect.evals <= bisect.iter + 2)
    /\ [][bisect.tab = "bisect" /\ bisect.pc = "loop" =>
            /\ bisect'.tab = "bisect"
            /\ \/ bisect'.pc = "returned"
               \/ bisect'.iter = bisect.iter + 1]_vars

\* C15, the case: a call returned after the loop ran all its 100 iterations,
\* with 102 evaluations of the function.
C15_LoopRanOut ==
    /\ bisect.tab = "bisect"
    /\ bisect.pc = "returned"
    /\ bisect.iter = 100
    /\ bisect.evals = 102

\* C18 (as stated): when f(a) * f(b) <= 0 on entry, f(a) * f(b) <= 0 at the
\* start of every iteration of the loop.
C18_BracketKept ==
    bisect.tab = "bisect" /\ bisect.pc = "loop"
      /\ ~ProductPositive(bisect.fa0, bisect.fb0)
    => ~ProductPositive(bisect.st.fa, bisect.st.fb)

\* C18, the failing input: f is 0 at a on entry and positive at b, and an
\* iteration begins with f(a) * f(b) > 0.
C18_BracketLost ==
    /\ bisect.tab = "bisect"
    /\ bisect.pc = "loop"
    /\ bisect.fa0 = 0
    /\ bisect.fb0 > 0
    /\ bisect.iter > 0
    /\ ProductPositive(bisect.st.fa, bisect.st.fb)

\* the solves of the table shown, for the WACC of index i and the terminal
\* growth of index j of the grid
GridSolve(i, j) ==
    Call_reverse_dcf_solver(shown.target_ev, shown.solver_fcf,
                            wacc_range(shown.base_wacc, i),
                            term_range(shown.base_term, j),
                            DefaultYears, HAS_SCIPY)

\* two solves of the grid with the same terminal growth, the second with the
\* higher WACC, both valid combinations and both converged
GridPairs ==
    { p \in (0 .. GridPoints - 1) \X (0 .. GridPoints - 1) \X (0 .. GridPoints - 1) :
        /\ p[1] < p[2]
        /\ ValidCombination(wacc_range(shown.base_wacc, p[1]),
                            term_range(shown.base_term, p[3]))
        /\ GridSolve(p[1], p[3]).success
        /\ GridSolve(p[2], p[3]).success }

\* C16 (as stated): in the table of the sensitivity analysis, of two converged
\* solves with the same terminal growth, the one with the higher WACC has the
\* lower or the same implied growth.
C16_HigherWaccLowerGrowth ==
    shown.tab = "sensitivity" /\ shown.kind = "table" =>
        \A p \in GridPairs : GridSolve(p[2], p[3]).g <= GridSolve(p[1], p[3]).g

\* C16, the failing input: a table is shown in which, for one terminal
\* growth, a converged solve with a higher WACC has the higher implied growth.
C16_HigherWaccHigherGrowth ==
    /\ shown.tab = "sensitivity"
    /\ shown.kind = "table"
    /\ shown.base_wacc = Pct(10)
    /\ \E p \in GridPairs : GridSolve(p[2], p[3]).g > GridSolve(p[1], p[3]).g

\* C19 (as stated): "Calculate Value" divides by the number of shares and by
\* the price only when both are > 0: it raises no ZeroDivisionError, and a
\* valuation is shown only for shares > 0 and a price > 0.
C19_NoDivisionByZero ==
    shown.tab = "fundamental" =>
        /\ shown.kind # "ZeroDivisionError"
        /\ shown.kind = "valuation" =>
              stock_data.shares_outstanding > 0 /\ stock_data.current_price > 0

\* C19, the failing input: after "Update Data" with 0 shares, a free cash flow
\* > 0 and WACC above the terminal growth, "Calculate Value" raises
\* ZeroDivisionError.
C19_ZeroSharesDivided ==
    /\ shown.tab = "fundamental"
    /\ shown.kind = "ZeroDivisionError"
    /\ stock_data.shares_outstanding = 0
    /\ shown.fcf > 0
    /\ shown.wacc > shown.term

\* C20 (as stated): a calculated WACC held by the session was calculated from
\* the market cap and the debt of the company data the session holds.
C20_WaccOfCurrentData ==
    ~wacc_data.isNone /\ wacc_data.components.method = "calculated" =>
        /\ ~stock_data.isNone
        /\ wacc_data.components.market_cap = stock_data.market_cap
        /\ wacc_data.components.total_debt = stock_data.total_debt

\* C20, the failing input: after a fetch and an "Update Data" with another
\* price, the session holds a WACC calculated for the market cap 150000 with
\* company data whose market cap is 200000.
C20_StaleWacc ==
    /\ ~wacc_data.isNone
    /\ wacc_data.components.method = "calculated"
    /\ wacc_data.components.market_cap = 150000
    /\ ~stock_data.isNone
    /\ stock_data.market_cap = 200000

\* C17: whenever the discount rate and the terminal growth rate are less than
\* 0.000001 apart, the pair is rejected and the terminal-value division is
\* not evaluated, on every path that leads to the division
C17_NearEqualRejected ==
    (gate.tab = "gate" /\ Abs(gate.wacc - gate.term) < FineOne \div 1000000)
        => (gate.rejected /\ gate.division # "evaluated")

\* a grid cell whose WACC is 0.0000001 above its terminal growth rate passed
\* the test of sensitivity_analysis and the division was evaluated
C17_TinyGapDivides ==
    /\ gate.tab = "gate"
    /\ gate.path = "sensitivity"
    /\ gate.wacc - gate.term = 1
    /\ ~gate.rejected
    /\ gate.division = "evaluated"

\* C21: on every path (brentq, bisection, the fallback scan, the error
\* return) and for every target, cash flow, pair of rates and number of
\* years, the implied growth that reverse_dcf_solver returns, a percent, lies
\* between -30 and 200 inclusive
C21_GrowthWithinBracket ==
    solve.tab # "none" =>
        /\ solve.g >= Pct(-30) * Percent
        /\ solve.g <= Pct(200) * Percent

\* a call with years = 3 whose target no growth rate of the bracket reaches
\* came back from the fallback scan with the top of the scan range, 150%
C21_ScanTopReturned ==
    /\ solve.tab = "years"
    /\ solve.years = 3
    /\ HAS_SCIPY
    /\ ~solve.success
    /\ solve.error_message = MsgNoExactMatch
    /\ solve.g = ScanHi * Percent

====
